---- MODULE Spec2Model ----
(***************************************************************************)
(* Model of the nodeup configuration assembler (pkg/apis/nodeup/config.go:  *)
(* NewConfig and its role filters) and of the generated lifecycle accessors *)
(* of the VPC task (alitasks, fitask-generated).                            *)
(*                                                                          *)
(* Go pointers are modelled as options: Nil is the nil pointer, Ptr(v) a    *)
(* non-nil pointer to v.  Go slices are sequences; the nil slice is <<>>.   *)
(* Strings whose characters matter (MachineType) are sequences of           *)
(* one-character strings.                                                   *)
(***************************************************************************)
EXTENDS Integers, Sequences, FiniteSets, TLC

VARIABLES cluster, instanceGroup, config, bootConfig, vpc, ops

vars == <<cluster, instanceGroup, config, bootConfig, vpc, ops>>

Nil == <<>>
Ptr(v) == <<v>>
Deref(p) == p[1]

(* ------------------------------ bounds --------------------------------- *)
MaxHooks == 2
MaxAssets == 2
MaxLen == 3
MaxOps == 3

(* --------------------------- kops API values --------------------------- *)
InstanceGroupRoles == {"ControlPlane", "APIServer", "Node", "Bastion"}

CloudProviderAWS == "aws"
CloudProviderGCE == "gce"
UpdatePolicyAutomatic == "automatic"
UpdatePolicyExternal == "external"

Lifecycles == {"Sync", "ExistsAndWarnIfChanges", "ExistsAndWarnIfInsufficientAccess"}

RECURSIVE SeqsUpTo(_, _)
SeqsUpTo(S, n) ==
  IF n = 0 THEN {<<>>}
  ELSE LET shorter == SeqsUpTo(S, n - 1)
       IN shorter \cup {Append(s, x) : s \in {t \in shorter : Len(t) = n - 1}, x \in S}

HookSpecs ==
  { [Name |-> "hook-all", Roles |-> <<>>],
    [Name |-> "hook-node", Roles |-> <<"Node">>],
    [Name |-> "hook-cp", Roles |-> <<"ControlPlane">>],
    [Name |-> "hook-api", Roles |-> <<"ControlPlane", "APIServer">>] }

FileAssetSpecs ==
  { [Name |-> "asset-all", Roles |-> <<>>],
    [Name |-> "asset-node", Roles |-> <<"Node">>],
    [Name |-> "asset-cp", Roles |-> <<"ControlPlane">>],
    [Name |-> "asset-api", Roles |-> <<"ControlPlane", "APIServer">>] }

MachineTypeChars == {"m", "t", ","}

AWSSpecs ==
  { [DisableSecurityGroupIngress |-> Ptr(TRUE),
     ElbSecurityGroup |-> Ptr("sg-elb"),
     NodeIPFamilies |-> <<"ipv4">>,
     WarmPool |-> wp]
    : wp \in {Nil, Ptr([MaxSize |-> Nil, EnableLifecycleHook |-> TRUE]),
              Ptr([MaxSize |-> Ptr(0), EnableLifecycleHook |-> TRUE])} }

GCESpecs ==
  { [Multizone |-> Ptr(TRUE), NodeTags |-> Ptr("c-k8s-io-role-node"),
     NodeInstancePrefix |-> Ptr("c")] }

CloudProviderSpecs ==
  {[AWS |-> Ptr(a), GCE |-> Nil] : a \in AWSSpecs}
  \cup {[AWS |-> Nil, GCE |-> Ptr(g)] : g \in GCESpecs}
  \cup {[AWS |-> Nil, GCE |-> Nil]}

KubeAPIServerConfigs == {Nil, Ptr([AnonymousAuth |-> FALSE])}
KubeletConfigSpecs == {Nil, Ptr([CgroupDriver |-> "systemd"])}
UpdatePolicies == {Nil, Ptr(UpdatePolicyExternal), Ptr(UpdatePolicyAutomatic)}

DefaultCluster ==
  [ObjectMeta |-> [Name |-> "c.example.com"],
   Spec |-> [Hooks |-> <<>>,
             FileAssets |-> <<>>,
             ContainerRuntime |-> "containerd",
             CloudProvider |-> [AWS |-> Nil, GCE |-> Nil],
             KubernetesMinor |-> 24,
             UpdatePolicy |-> Nil,
             Networking |-> [AmazonVPC |-> Nil],
             ExternalCloudControllerManager |-> Nil,
             KubeAPIServer |-> Nil]]

DefaultInstanceGroup ==
  [ObjectMeta |-> [Name |-> "nodes-a"],
   Spec |-> [Role |-> "Node",
             Hooks |-> <<>>,
             FileAssets |-> <<>>,
             SysctlParameters |-> <<"net.ipv4.ip_forward=1">>,
             VolumeMounts |-> <<>>,
             UpdatePolicy |-> Nil,
             MachineType |-> <<"m">>,
             Kubelet |-> Nil,
             WarmPool |-> Nil]]

(* ------------------- helpers of package kops (not in src) -------------- *)
HasAPIServer(ig) == ig.Spec.Role \in {"ControlPlane", "APIServer"}

KubernetesGateMinor == 24

IsKubernetesLT(c, minor) == c.Spec.KubernetesMinor < minor

GetCloudProvider(spec) ==
  IF spec.CloudProvider.AWS # Nil THEN CloudProviderAWS
  ELSE IF spec.CloudProvider.GCE # Nil THEN CloudProviderGCE
  ELSE ""

ResolveDefaults(warmPool, ig) ==
  IF ig.Spec.WarmPool = Nil THEN warmPool ELSE ig.Spec.WarmPool

IsEnabled(warmPool) ==
  warmPool # Nil /\ (Deref(warmPool).MaxSize = Nil \/ Deref(warmPool).MaxSize # Ptr(0))

(* strings.Split(s, sep)[0] for a one-character separator: Split cuts at    *)
(* every separator, element 0 is what precedes the first one.               *)
RECURSIVE Split(_, _)
Split(s, sep) ==
  IF \A i \in 1..Len(s) : s[i] # sep THEN <<s>>
  ELSE LET k == CHOOSE i \in 1..Len(s) : s[i] = sep /\ \A j \in 1..(i - 1) : s[j] # sep
       IN <<SubSeq(s, 1, k - 1)>> \o Split(SubSeq(s, k + 1, Len(s)), sep)

(* ------------------------- config.go: filters -------------------------- *)
(* Variant: only the first listed role is compared. *)
containsRole_firstOnly(v, list) == Len(list) > 0 /\ v = list[1]

containsRole(v, list) == \E i \in 1..Len(list) : v = list[i]

(* One iteration of the range loop.  `src` is the backing array of the     *)
(* input slice after the iteration, `out` the slice built so far: the loop *)
(* variable is a copy of src[i], so clearing its Roles leaves src alone.   *)
(* Variant: the retained copy keeps its role list. *)
filterHooksStep_keepRoles(h, hooks, i, role) ==
  LET hook == h[i]
  IN IF Len(hook.Roles) > 0 /\ ~containsRole(role, hook.Roles)
     THEN [src |-> h, out |-> hooks]
     ELSE [src |-> h, out |-> Append(hooks, hook)]

filterHooksStep(h, hooks, i, role) ==
  LET hook == h[i]
  IN IF Len(hook.Roles) > 0 /\ ~containsRole(role, hook.Roles)
     THEN [src |-> h, out |-> hooks]
     ELSE [src |-> h, out |-> Append(hooks, [hook EXCEPT !.Roles = Nil])]

RECURSIVE filterHooksFrom(_, _, _, _)
filterHooksFrom(h, hooks, i, role) ==
  IF i > Len(h) THEN [src |-> h, out |-> hooks]
  ELSE LET st == filterHooksStep(h, hooks, i, role)
       IN filterHooksFrom(st.src, st.out, i + 1, role)

filterHooks(h, role) == filterHooksFrom(h, Nil, 1, role)

(* Variant: the loop clears the roles through the slice element (f[i])    *)
(* instead of through the loop variable's copy.                            *)
filterFileAssetsStep_inPlace(f, fileAssets, i, role) ==
  LET fileAsset == f[i]
  IN IF Len(fileAsset.Roles) > 0 /\ ~containsRole(role, fileAsset.Roles)
     THEN [src |-> f, out |-> fileAssets]
     ELSE [src |-> [f EXCEPT ![i].Roles = Nil],
           out |-> Append(fileAssets, [fileAsset EXCEPT !.Roles = Nil])]

filterFileAssetsStep(f, fileAssets, i, role) ==
  LET fileAsset == f[i]
  IN IF Len(fileAsset.Roles) > 0 /\ ~containsRole(role, fileAsset.Roles)
     THEN [src |-> f, out |-> fileAssets]
     ELSE [src |-> f, out |-> Append(fileAssets, [fileAsset EXCEPT !.Roles = Nil])]

RECURSIVE filterFileAssetsFrom(_, _, _, _)
filterFileAssetsFrom(f, fileAssets, i, role) ==
  IF i > Len(f) THEN [src |-> f, out |-> fileAssets]
  ELSE LET st == filterFileAssetsStep(f, fileAssets, i, role)
       IN filterFileAssetsFrom(st.src, st.out, i + 1, role)

filterFileAssets(f, role) == filterFileAssetsFrom(f, Nil, 1, role)

(* Variant: the provider is not looked at. *)
UsesInstanceIDForNodeName_anyProvider(c) ==
  c.Spec.ExternalCloudControllerManager # Nil

UsesInstanceIDForNodeName(c) ==
  c.Spec.ExternalCloudControllerManager # Nil /\ GetCloudProvider(c.Spec) = CloudProviderAWS

(* ------------------------- config.go: NewConfig ------------------------ *)
ZeroKubeletConfig == [CgroupDriver |-> ""]

(* The Config literal of NewConfig; fields the literal leaves out hold     *)
(* their zero value.                                                       *)
ConfigLiteral(c, ig, igHooks, clusterHooks, igFileAssets, clusterFileAssets) ==
  [Assets |-> Nil,
   Images |-> Nil,
   ClusterName |-> c.ObjectMeta.Name,
   Channels |-> Nil,
   ApiserverAdditionalIPs |-> Nil,
   Packages |-> Nil,
   EtcdManifests |-> Nil,
   CAs |-> <<>>,
   KeypairIDs |-> <<>>,
   DefaultMachineType |-> Nil,
   EnableLifecycleHook |-> FALSE,
   StaticManifests |-> Nil,
   KubeletConfig |-> ZeroKubeletConfig,
   SysctlParameters |-> ig.Spec.SysctlParameters,
   UpdatePolicy |-> "",
   VolumeMounts |-> ig.Spec.VolumeMounts,
   FileAssets |-> igFileAssets \o clusterFileAssets,
   Hooks |-> <<igHooks, clusterHooks>>,
   ContainerRuntime |-> c.Spec.ContainerRuntime,
   ContainerdConfig |-> Nil,
   APIServerConfig |-> Nil,
   NvidiaGPU |-> Nil,
   DisableSecurityGroupIngress |-> Nil,
   ElbSecurityGroup |-> Nil,
   NodeIPFamilies |-> Nil,
   UseInstanceIDForNodeName |-> FALSE,
   WarmPoolImages |-> Nil,
   Multizone |-> Nil,
   NodeTags |-> Nil,
   NodeInstancePrefix |-> Nil]

(* Variant: the instance-group name is taken from the cluster object. *)
BootConfigLiteral_clusterName(c, ig) ==
  [CloudProvider |-> GetCloudProvider(c.Spec),
   ConfigBase |-> Nil,
   ConfigServer |-> Nil,
   APIServerIP |-> "",
   InstanceGroupName |-> c.ObjectMeta.Name,
   InstanceGroupRole |-> ig.Spec.Role,
   NodeupConfigHash |-> ""]

BootConfigLiteral(c, ig) ==
  [CloudProvider |-> GetCloudProvider(c.Spec),
   ConfigBase |-> Nil,
   ConfigServer |-> Nil,
   APIServerIP |-> "",
   InstanceGroupName |-> ig.ObjectMeta.Name,
   InstanceGroupRole |-> ig.Spec.Role,
   NodeupConfigHash |-> ""]

(* Variant: the security-group fields are copied without the gate. *)
SetAWS_ungated(cfg, c, ig) ==
  IF c.Spec.CloudProvider.AWS # Nil
  THEN LET aws == Deref(c.Spec.CloudProvider.AWS)
           warmPool == ResolveDefaults(aws.WarmPool, ig)
           cfg1 == IF IsEnabled(warmPool) /\ Deref(warmPool).EnableLifecycleHook
                   THEN [cfg EXCEPT !.EnableLifecycleHook = TRUE]
                   ELSE cfg
       IN [cfg1 EXCEPT !.DisableSecurityGroupIngress = aws.DisableSecurityGroupIngress,
                       !.ElbSecurityGroup = aws.ElbSecurityGroup,
                       !.NodeIPFamilies = aws.NodeIPFamilies]
  ELSE cfg

SetAWS(cfg, c, ig) ==
  IF c.Spec.CloudProvider.AWS # Nil
  THEN LET aws == Deref(c.Spec.CloudProvider.AWS)
           warmPool == ResolveDefaults(aws.WarmPool, ig)
           cfg1 == IF IsEnabled(warmPool) /\ Deref(warmPool).EnableLifecycleHook
                   THEN [cfg EXCEPT !.EnableLifecycleHook = TRUE]
                   ELSE cfg
       IN IF HasAPIServer(ig) \/ IsKubernetesLT(c, KubernetesGateMinor)
          THEN [cfg1 EXCEPT !.DisableSecurityGroupIngress = aws.DisableSecurityGroupIngress,
                            !.ElbSecurityGroup = aws.ElbSecurityGroup,
                            !.NodeIPFamilies = aws.NodeIPFamilies]
          ELSE cfg1
  ELSE cfg

SetGCE(cfg, c, ig) ==
  IF c.Spec.CloudProvider.GCE # Nil
  THEN LET gce == Deref(c.Spec.CloudProvider.GCE)
       IN [cfg EXCEPT !.Multizone = gce.Multizone,
                      !.NodeTags = gce.NodeTags,
                      !.NodeInstancePrefix = gce.NodeInstancePrefix]
  ELSE cfg

SetUpdatePolicy(cfg, c, ig) ==
  IF ig.Spec.UpdatePolicy # Nil
  THEN [cfg EXCEPT !.UpdatePolicy = Deref(ig.Spec.UpdatePolicy)]
  ELSE IF c.Spec.UpdatePolicy # Nil
  THEN [cfg EXCEPT !.UpdatePolicy = Deref(c.Spec.UpdatePolicy)]
  ELSE [cfg EXCEPT !.UpdatePolicy = UpdatePolicyAutomatic]

(* Variant: the whole MachineType string is used. *)
SetDefaultMachineType_noSplit(cfg, c, ig) ==
  IF c.Spec.Networking.AmazonVPC # Nil
  THEN [cfg EXCEPT !.DefaultMachineType = Ptr(ig.Spec.MachineType)]
  ELSE cfg

SetDefaultMachineType(cfg, c, ig) ==
  IF c.Spec.Networking.AmazonVPC # Nil
  THEN [cfg EXCEPT !.DefaultMachineType = Ptr(Split(ig.Spec.MachineType, ",")[1])]
  ELSE cfg

SetUseInstanceIDForNodeName(cfg, c, ig) ==
  IF UsesInstanceIDForNodeName(c)
  THEN [cfg EXCEPT !.UseInstanceIDForNodeName = TRUE]
  ELSE cfg

SetKubeletConfig(cfg, c, ig) ==
  IF ig.Spec.Kubelet # Nil
  THEN [cfg EXCEPT !.KubeletConfig = Deref(ig.Spec.Kubelet)]
  ELSE cfg

(* Variant: the API-server block is attached to every instance group. *)
SetAPIServerConfig_always(cfg, c, ig) ==
  [cfg EXCEPT !.APIServerConfig =
     Ptr([KubeAPIServer |-> c.Spec.KubeAPIServer,
          EncryptionConfigSecretHash |-> "",
          ServiceAccountPublicKeys |-> ""])]

SetAPIServerConfig(cfg, c, ig) ==
  IF HasAPIServer(ig)
  THEN [cfg EXCEPT !.APIServerConfig =
          Ptr([KubeAPIServer |-> c.Spec.KubeAPIServer,
               EncryptionConfigSecretHash |-> "",
               ServiceAccountPublicKeys |-> ""])]
  ELSE cfg

(* NewConfig returns the two pointers; `cluster` and `instanceGroup` are   *)
(* the objects behind the argument pointers as the call leaves them.       *)
NewConfig(c, ig) ==
  LET role == ig.Spec.Role
      clusterHooks == filterHooks(c.Spec.Hooks, ig.Spec.Role)
      igHooks == filterHooks(ig.Spec.Hooks, ig.Spec.Role)
      igFileAssets == filterFileAssets(ig.Spec.FileAssets, role)
      clusterFileAssets == filterFileAssets(c.Spec.FileAssets, role)
      c1 == [c EXCEPT !.Spec.Hooks = clusterHooks.src,
                      !.Spec.FileAssets = clusterFileAssets.src]
      ig1 == [ig EXCEPT !.Spec.Hooks = igHooks.src,
                        !.Spec.FileAssets = igFileAssets.src]
      cfg0 == ConfigLiteral(c1, ig1, igHooks.out, clusterHooks.out,
                            igFileAssets.out, clusterFileAssets.out)
      boot == BootConfigLiteral(c1, ig1)
      cfg1 == SetAWS(cfg0, c1, ig1)
      cfg2 == SetGCE(cfg1, c1, ig1)
      cfg3 == SetUpdatePolicy(cfg2, c1, ig1)
      cfg4 == SetDefaultMachineType(cfg3, c1, ig1)
      cfg5 == SetUseInstanceIDForNodeName(cfg4, c1, ig1)
      cfg6 == SetKubeletConfig(cfg5, c1, ig1)
      cfg7 == SetAPIServerConfig(cfg6, c1, ig1)
  IN [config |-> Ptr(cfg7), bootConfig |-> Ptr(boot), cluster |-> c1, instanceGroup |-> ig1]

(* ---------------------- VPC task: generated accessors ------------------ *)
GetLifecycle(o) == o.Lifecycle

(* Variant: the setter leaves the task alone. *)
SetLifecycle_ignored(o, lifecycle) == o

SetLifecycle(o, lifecycle) == [o EXCEPT !.Lifecycle = Ptr(lifecycle)]

GetName(o) == o.Name

DefaultVPC == [Lifecycle |-> Ptr("Sync"), Name |-> Ptr("vpc-main")]

(* ------------------------------- inputs -------------------------------- *)
InitHooks ==
  \E r \in InstanceGroupRoles :
  \E ch \in SeqsUpTo(HookSpecs, MaxHooks), ih \in SeqsUpTo(HookSpecs, MaxHooks) :
     /\ cluster = [DefaultCluster EXCEPT !.Spec.Hooks = ch]
     /\ instanceGroup = [DefaultInstanceGroup EXCEPT !.Spec.Role = r, !.Spec.Hooks = ih]

InitFileAssets ==
  \E r \in InstanceGroupRoles :
  \E cf \in SeqsUpTo(FileAssetSpecs, MaxAssets), igf \in SeqsUpTo(FileAssetSpecs, MaxAssets) :
     /\ cluster = [DefaultCluster EXCEPT !.Spec.FileAssets = cf]
     /\ instanceGroup = [DefaultInstanceGroup EXCEPT !.Spec.Role = r, !.Spec.FileAssets = igf]

InitProvider ==
  \E r \in InstanceGroupRoles, cp \in CloudProviderSpecs, minor \in {23, 24},
     ccm \in {Nil, Ptr([ClusterName |-> "c.example.com"])},
     kas \in KubeAPIServerConfigs, kubelet \in KubeletConfigSpecs,
     cup \in UpdatePolicies, iup \in UpdatePolicies :
     /\ cluster = [DefaultCluster EXCEPT !.Spec.CloudProvider = cp,
                                         !.Spec.KubernetesMinor = minor,
                                         !.Spec.ExternalCloudControllerManager = ccm,
                                         !.Spec.KubeAPIServer = kas,
                                         !.Spec.UpdatePolicy = cup]
     /\ instanceGroup = [DefaultInstanceGroup EXCEPT !.Spec.Role = r,
                                                     !.Spec.Kubelet = kubelet,
                                                     !.Spec.UpdatePolicy = iup]

InitMachineType ==
  \E mt \in SeqsUpTo(MachineTypeChars, MaxLen), vpcNet \in {Nil, Ptr([Env |-> <<>>])},
     wp \in {Nil, Ptr([MaxSize |-> Nil, EnableLifecycleHook |-> TRUE])},
     cp \in CloudProviderSpecs :
     /\ cluster = [DefaultCluster EXCEPT !.Spec.Networking.AmazonVPC = vpcNet,
                                         !.Spec.CloudProvider = cp]
     /\ instanceGroup = [DefaultInstanceGroup EXCEPT !.Spec.MachineType = mt,
                                                     !.Spec.WarmPool = wp]

Init ==
  /\ InitHooks \/ InitFileAssets \/ InitProvider \/ InitMachineType
  /\ config = Nil
  /\ bootConfig = Nil
  /\ vpc = DefaultVPC
  /\ ops = <<>>

NewConfigCall ==
  LET res == NewConfig(cluster, instanceGroup)
  IN /\ config' = res.config
     /\ bootConfig' = res.bootConfig
     /\ cluster' = res.cluster
     /\ instanceGroup' = res.instanceGroup
     /\ UNCHANGED <<vpc, ops>>

Next == NewConfigCall

Spec == Init /\ [][Next]_vars

(* The task is constructed with some lifecycle; `ops` records the calls    *)
(* made on it and what each returned.                                      *)
InitTask ==
  /\ cluster = DefaultCluster
  /\ instanceGroup = DefaultInstanceGroup
  /\ config = Nil
  /\ bootConfig = Nil
  /\ \E l \in Lifecycles, n \in {"vpc-main", "vpc-aux"} :
        vpc = [Lifecycle |-> Ptr(l), Name |-> Ptr(n)]
  /\ ops = <<[op |-> "New", val |-> vpc.Lifecycle]>>

SetLifecycleCall ==
  /\ Len(ops) < MaxOps + 1
  /\ \E lifecycle \in Lifecycles :
        /\ vpc' = SetLifecycle(vpc, lifecycle)
        /\ ops' = Append(ops, [op |-> "SetLifecycle", val |-> Ptr(lifecycle)])
  /\ UNCHANGED <<cluster, instanceGroup, config, bootConfig>>

GetLifecycleCall ==
  /\ Len(ops) < MaxOps + 1
  /\ ops' = Append(ops, [op |-> "GetLifecycle", val |-> GetLifecycle(vpc)])
  /\ UNCHANGED <<cluster, instanceGroup, config, bootConfig, vpc>>

GetNameCall ==
  /\ Len(ops) < MaxOps + 1
  /\ ops' = Append(ops, [op |-> "GetName", val |-> GetName(vpc)])
  /\ UNCHANGED <<cluster, instanceGroup, config, bootConfig, vpc>>

NextTask == SetLifecycleCall \/ GetLifecycleCall \/ GetNameCall

SpecTask == InitTask /\ [][NextTask]_vars

(* ------------------------------ properties ----------------------------- *)
called == config # Nil /\ bootConfig # Nil

Range(s) == {s[i] : i \in 1..Len(s)}

Applies(x, role) == x.Roles = <<>> \/ role \in Range(x.Roles)

NamesIn(s) == {s[i].Name : i \in 1..Len(s)}

(* C1: a hook or file asset of the cluster-scoped or instance-group-scoped *)
(* list appears in the returned NodeConfig (Hooks, resp. FileAssets) if    *)
(* and only if its role list is empty or contains the instance group's     *)
(* role.                                                                   *)
C1_RoleFiltering ==
  called =>
    LET role == instanceGroup.Spec.Role
        cfg == Deref(config)
    IN /\ \A x \in Range(cluster.Spec.Hooks) \cup Range(instanceGroup.Spec.Hooks) :
            x.Name \in (NamesIn(cfg.Hooks[1]) \cup NamesIn(cfg.Hooks[2]))
              <=> Applies(x, role)
       /\ \A x \in Range(cluster.Spec.FileAssets) \cup Range(instanceGroup.Spec.FileAssets) :
            x.Name \in NamesIn(cfg.FileAssets) <=> Applies(x, role)

(* The spec's scenario: cluster hook for all roles, instance-group hook    *)
(* for the control plane, instance group of role Node.                     *)
C1_Witness ==
  /\ called
  /\ instanceGroup.Spec.Role = "Node"
  /\ cluster.Spec.Hooks = <<[Name |-> "hook-all", Roles |-> <<>>]>>
  /\ instanceGroup.Spec.Hooks = <<[Name |-> "hook-cp", Roles |-> <<"ControlPlane">>]>>
  /\ NamesIn(Deref(config).Hooks[1]) = {}
  /\ NamesIn(Deref(config).Hooks[2]) = {"hook-all"}

(* C2: every hook and every file asset of the returned NodeConfig has an   *)
(* empty role list.                                                        *)
C2_RolesCleared ==
  called =>
    LET cfg == Deref(config)
    IN /\ \A k \in 1..Len(cfg.Hooks) : \A x \in Range(cfg.Hooks[k]) : x.Roles = <<>>
       /\ \A x \in Range(cfg.FileAssets) : x.Roles = <<>>

C2_Witness ==
  /\ called
  /\ \E x \in Range(instanceGroup.Spec.Hooks) :
        /\ x.Roles # <<>>
        /\ instanceGroup.Spec.Role \in Range(x.Roles)
        /\ [Name |-> x.Name, Roles |-> <<>>] \in Range(Deref(config).Hooks[1])

(* C3 as stated: the returned BootConfig carries a content hash of the     *)
(* NodeConfig and a config-server address.                                 *)
C3_Original ==
  called =>
    /\ Deref(bootConfig).NodeupConfigHash # ""
    /\ Deref(bootConfig).ConfigServer # Nil

(* C3 amended: the returned BootConfig carries the cloud provider and the  *)
(* instance group's name and role; NodeupConfigHash is left empty and      *)
(* ConfigServer, ConfigBase and APIServerIP are left unset.                *)
C3_BootConfig ==
  called =>
    LET b == Deref(bootConfig)
    IN /\ b.CloudProvider =
            (IF cluster.Spec.CloudProvider.AWS # Nil THEN "aws"
             ELSE IF cluster.Spec.CloudProvider.GCE # Nil THEN "gce" ELSE "")
       /\ b.InstanceGroupName = instanceGroup.ObjectMeta.Name
       /\ b.InstanceGroupRole = instanceGroup.Spec.Role
       /\ b.NodeupConfigHash = ""
       /\ b.ConfigServer = Nil
       /\ b.ConfigBase = Nil
       /\ b.APIServerIP = ""

C3_Witness ==
  /\ called
  /\ Deref(config).APIServerConfig # Nil
  /\ Deref(config).ElbSecurityGroup # Nil
  /\ Deref(bootConfig).CloudProvider = "aws"
  /\ Deref(bootConfig).InstanceGroupRole = "ControlPlane"
  /\ Deref(bootConfig).NodeupConfigHash = ""

(* C4 as stated: every GetLifecycle returns a non-nil lifecycle equal to   *)
(* the one the task was constructed with.                                  *)
C4_Original ==
  \A i \in 1..Len(ops) :
     ops[i].op = "GetLifecycle" => (ops[i].val # Nil /\ ops[i].val = ops[1].val)

LastAssigned(i) ==
  LET j == CHOOSE k \in 1..(i - 1) :
             /\ ops[k].op \in {"New", "SetLifecycle"}
             /\ \A m \in (k + 1)..(i - 1) : ops[m].op \notin {"New", "SetLifecycle"}
  IN ops[j].val

(* C4 amended: GetLifecycle returns the lifecycle most recently assigned   *)
(* to the task, by SetLifecycle or, when SetLifecycle was never called, by *)
(* construction.                                                           *)
C4_LastAssigned ==
  \A i \in 1..Len(ops) :
     ops[i].op = "GetLifecycle" => ops[i].val = LastAssigned(i)

C4_Witness ==
  \E i, j \in 1..Len(ops) :
     /\ i < j
     /\ ops[i].op = "SetLifecycle"
     /\ ops[j].op = "GetLifecycle"
     /\ ops[j].val = ops[i].val
     /\ ops[j].val # ops[1].val

(* C6: a call of NewConfig leaves the cluster and the instance group as    *)
(* they were, the role lists of their hooks and file assets included.      *)
C6_InputsUnchanged ==
  [][cluster' = cluster /\ instanceGroup' = instanceGroup]_vars

C6_Witness ==
  /\ called
  /\ \E x \in Range(cluster.Spec.FileAssets) :
        /\ x.Roles # <<>>
        /\ instanceGroup.Spec.Role \in Range(x.Roles)
        /\ [Name |-> x.Name, Roles |-> <<>>] \in Range(Deref(config).FileAssets)

AWSFields(cfg) == <<cfg.DisableSecurityGroupIngress, cfg.ElbSecurityGroup, cfg.NodeIPFamilies>>

GCEFields(cfg) == <<cfg.Multizone, cfg.NodeTags, cfg.NodeInstancePrefix>>

Gated == HasAPIServer(instanceGroup) \/ cluster.Spec.KubernetesMinor < 24

(* C7 as stated: for an instance group that neither hosts an API server    *)
(* nor runs below Kubernetes 1.24 all provider-specific fields are unset.  *)
C7_Original ==
  (called /\ ~Gated) =>
    /\ AWSFields(Deref(config)) = <<Nil, Nil, Nil>>
    /\ GCEFields(Deref(config)) = <<Nil, Nil, Nil>>

(* C7 amended: the AWS fields are copied from the cluster's AWS block only *)
(* when the instance group hosts an API server or Kubernetes is below      *)
(* 1.24, and are unset otherwise; the GCE fields are copied from the       *)
(* cluster's GCE block whenever there is one, whatever the instance group. *)
C7_ProviderFields ==
  called =>
    LET cfg == Deref(config)
        cp == cluster.Spec.CloudProvider
    IN /\ AWSFields(cfg) =
            (IF cp.AWS # Nil /\ Gated
             THEN <<Deref(cp.AWS).DisableSecurityGroupIngress,
                    Deref(cp.AWS).ElbSecurityGroup,
                    Deref(cp.AWS).NodeIPFamilies>>
             ELSE <<Nil, Nil, Nil>>)
       /\ GCEFields(cfg) =
            (IF cp.GCE # Nil
             THEN <<Deref(cp.GCE).Multizone, Deref(cp.GCE).NodeTags,
                    Deref(cp.GCE).NodeInstancePrefix>>
             ELSE <<Nil, Nil, Nil>>)

C7_Witness ==
  /\ called
  /\ ~Gated
  /\ cluster.Spec.CloudProvider.GCE # Nil
  /\ Deref(config).NodeTags # Nil
  /\ Deref(config).Multizone # Nil

(* C8: APIServerConfig is set if and only if the instance group hosts an   *)
(* API server; when set, its KubeAPIServer is the cluster's.               *)
C8_APIServerConfig ==
  called =>
    LET cfg == Deref(config)
    IN /\ cfg.APIServerConfig # Nil <=> HasAPIServer(instanceGroup)
       /\ cfg.APIServerConfig # Nil =>
            Deref(cfg.APIServerConfig).KubeAPIServer = cluster.Spec.KubeAPIServer

C8_Witness ==
  /\ called
  /\ instanceGroup.Spec.Role = "APIServer"
  /\ cluster.Spec.KubeAPIServer # Nil
  /\ Deref(config).APIServerConfig # Nil
  /\ Deref(Deref(config).APIServerConfig).KubeAPIServer = cluster.Spec.KubeAPIServer

FirstChoice(s) ==
  LET commas == {i \in 1..Len(s) : s[i] = ","}
      n == IF commas = {} THEN Len(s) + 1
           ELSE CHOOSE i \in commas : \A j \in commas : i <= j
  IN [i \in 1..(n - 1) |-> s[i]]

(* C9: DefaultMachineType is set exactly when the cluster uses AmazonVPC   *)
(* networking, and then it is the part of MachineType before the first     *)
(* comma (all of it when there is no comma).                               *)
C9_DefaultMachineType ==
  called =>
    LET cfg == Deref(config)
    IN /\ cfg.DefaultMachineType # Nil <=> cluster.Spec.Networking.AmazonVPC # Nil
       /\ cfg.DefaultMachineType # Nil =>
            Deref(cfg.DefaultMachineType) = FirstChoice(instanceGroup.Spec.MachineType)

C9_Witness ==
  /\ called
  /\ instanceGroup.Spec.MachineType = <<"m", ",", "t">>
  /\ Deref(config).DefaultMachineType = Ptr(<<"m">>)

(* C10 as stated: UseInstanceIDForNodeName is true exactly when an         *)
(* external cloud-controller-manager is configured.                        *)
C10_Original ==
  called =>
    (Deref(config).UseInstanceIDForNodeName
       <=> cluster.Spec.ExternalCloudControllerManager # Nil)

(* C10 amended: UseInstanceIDForNodeName is true exactly when an external  *)
(* cloud-controller-manager is configured and the cloud provider is AWS.   *)
C10_UseInstanceID ==
  called =>
    (Deref(config).UseInstanceIDForNodeName
       <=> (/\ cluster.Spec.ExternalCloudControllerManager # Nil
            /\ cluster.Spec.CloudProvider.AWS # Nil))

C10_Witness ==
  /\ called
  /\ cluster.Spec.ExternalCloudControllerManager # Nil
  /\ cluster.Spec.CloudProvider.GCE # Nil
  /\ Deref(config).UseInstanceIDForNodeName = FALSE

====
